---- MODULE Spec2Model ----
(***************************************************************************)
(* A model of github.com/abakum/knownhosts: the address normalizer, the    *)
(* known_hosts line writer, the HostKeyDB built by NewDB (CA line index),  *)
(* the host key / host key algorithm lookups and the permissive host key   *)
(* callback of cmd/main.go.                                                *)
(*                                                                         *)
(* Strings are sequences of one-character strings, so that splitting,      *)
(* bracketing and joining are computed character by character.  In the     *)
(* text of a known_hosts line the key type and the base64 key blob are     *)
(* single symbols (they never contain white space, a comma or a bracket).  *)
(***************************************************************************)
EXTENDS Naturals, Sequences, FiniteSets, TLC

VARIABLES
    files,      \* the known_hosts files on disk: file name -> sequence of lines
    db,         \* the HostKeyDB last built by NewDB (callback data and isCert)
    last,       \* the last call made on the package and what it returned
    nAddr,      \* Normalize: the address under normalization
    nOut,       \* Normalize(nAddr)
    nOut2,      \* Normalize(Normalize(nAddr))
    npc,        \* Normalize: "input", "once" or "twice"
    appends     \* the number of lines the callback has appended to khPath

vars == <<files, db, last, nAddr, nOut, nOut2, npc, appends>>

(***************************************************************************)
(* Bounds of the model.                                                    *)
(***************************************************************************)
\* longest arbitrary string handed to Normalize
MaxLen == 4
\* longest host body of the structured addresses handed to Normalize
MaxHostLen == 3
\* most lines the callback appends to the known_hosts file
MaxAppends == 1
\* most wanted keys in the KeyError of a callback not built by this package
MaxWant == 2

(***************************************************************************)
(* String helpers (package strings / bytes / internal/bytealg).            *)
(***************************************************************************)
\* bytealg.IndexByteString, 1-based, 0 when absent
IndexByte(s, c) ==
    IF \E i \in 1..Len(s) : s[i] = c
    THEN CHOOSE i \in 1..Len(s) : s[i] = c /\ \A j \in 1..(i - 1) : s[j] # c
    ELSE 0

\* bytealg.LastIndexByteString, 1-based, 0 when absent
LastIndexByte(s, c) ==
    IF \E i \in 1..Len(s) : s[i] = c
    THEN CHOOSE i \in 1..Len(s) : s[i] = c /\ \A j \in (i + 1)..Len(s) : s[j] # c
    ELSE 0

\* s[from:] of Go, with from given 1-based
Tail1(s, from) == SubSeq(s, from, Len(s))

HasPrefixByte(s, c) == Len(s) > 0 /\ s[1] = c

HasSuffixByte(s, c) == Len(s) > 0 /\ s[Len(s)] = c

WhiteSpace == {" ", "\t"}

RECURSIVE TrimLeft(_)
TrimLeft(s) ==
    IF Len(s) > 0 /\ s[1] \in WhiteSpace THEN TrimLeft(Tail(s)) ELSE s

RECURSIVE TrimRight(_)
TrimRight(s) ==
    IF Len(s) > 0 /\ s[Len(s)] \in WhiteSpace
    THEN TrimRight(SubSeq(s, 1, Len(s) - 1))
    ELSE s

\* bytes.TrimSpace
TrimSpace(s) == TrimRight(TrimLeft(s))

\* strings.ContainsAny(s, "\t ")
ContainsWhiteSpace(s) == \E i \in 1..Len(s) : s[i] \in WhiteSpace

Port22 == <<"2", "2">>

(***************************************************************************)
(* net.SplitHostPort, as used by Normalize (and by the matcher).           *)
(***************************************************************************)
SplitErr == [host |-> <<>>, port |-> <<>>, err |-> TRUE]

SplitHostPort(hostport) ==
    LET i == LastIndexByte(hostport, ":")
        end == IndexByte(hostport, "]")
    IN  IF i = 0 THEN SplitErr                     \* missing port
        ELSE IF hostport[1] = "["
        THEN IF end = 0 THEN SplitErr              \* missing ']'
             ELSE IF end = Len(hostport) THEN SplitErr   \* missing port
             ELSE IF end + 1 # i THEN SplitErr     \* too many colons / missing port
             ELSE IF IndexByte(Tail1(hostport, 2), "[") # 0 THEN SplitErr
             ELSE IF IndexByte(Tail1(hostport, end + 1), "]") # 0 THEN SplitErr
             ELSE [host |-> SubSeq(hostport, 2, end - 1),
                   port |-> Tail1(hostport, i + 1), err |-> FALSE]
        ELSE IF IndexByte(SubSeq(hostport, 1, i - 1), ":") # 0 THEN SplitErr
             ELSE IF IndexByte(hostport, "[") # 0 THEN SplitErr
             ELSE IF IndexByte(hostport, "]") # 0 THEN SplitErr
             ELSE [host |-> SubSeq(hostport, 1, i - 1),
                   port |-> Tail1(hostport, i + 1), err |-> FALSE]

(***************************************************************************)
(* Normalize.                                                              *)
(***************************************************************************)
\* A mutant: the Normalize of golang.org/x/crypto (golang/go#53463), which
\* brackets a host holding a colon on port 22 instead of unbracketing.
NormalizeUpstream(address) ==
    LET r == SplitHostPort(address)
        host == IF r.err THEN address ELSE r.host
        port == IF r.err THEN Port22 ELSE r.port
    IN  IF port # Port22 THEN <<"[">> \o host \o <<"]", ":">> \o port
        ELSE IF IndexByte(host, ":") # 0 /\ ~HasPrefixByte(host, "[")
        THEN <<"[">> \o host \o <<"]">>
        ELSE host

\* A mutant: the bracketed form is built from the address, not from the host.
NormalizeWholeAddress(address) ==
    LET r == SplitHostPort(address)
        host == IF r.err THEN address ELSE r.host
        port == IF r.err THEN Port22 ELSE r.port
    IN  IF port # Port22 THEN <<"[">> \o address \o <<"]", ":">> \o port
        ELSE IF HasPrefixByte(host, "[") /\ HasSuffixByte(host, "]")
        THEN SubSeq(host, 2, Len(host) - 1)
        ELSE host

Normalize(address) ==
    LET r == SplitHostPort(address)
        host == IF r.err THEN address ELSE r.host
        port == IF r.err THEN Port22 ELSE r.port
    IN  IF port # Port22 THEN <<"[">> \o host \o <<"]", ":">> \o port
        ELSE IF HasPrefixByte(host, "[") /\ HasSuffixByte(host, "]")
        THEN SubSeq(host, 2, Len(host) - 1)
        ELSE host

(***************************************************************************)
(* Keys.  A public key is its type (ssh.PublicKey.Type) and its marshalled *)
(* bytes, here a name.  KeyD is a certificate, which ssh.ParsePublicKey    *)
(* also accepts as the key of a known_hosts line.                          *)
(***************************************************************************)
KeyAlgoRSA == "ssh-rsa"
KeyAlgoRSASHA256 == "rsa-sha2-256"
KeyAlgoRSASHA512 == "rsa-sha2-512"
KeyAlgoED25519 == "ssh-ed25519"
CertAlgoRSAv01 == "ssh-rsa-cert-v01@openssh.com"
CertAlgoRSASHA256v01 == "rsa-sha2-256-cert-v01@openssh.com"
CertAlgoRSASHA512v01 == "rsa-sha2-512-cert-v01@openssh.com"
CertAlgoED25519v01 == "ssh-ed25519-cert-v01@openssh.com"

KeyA == [typ |-> KeyAlgoRSA, blob |-> "A"]
KeyB == [typ |-> KeyAlgoRSA, blob |-> "B"]
KeyC == [typ |-> KeyAlgoED25519, blob |-> "C"]
KeyD == [typ |-> CertAlgoED25519v01, blob |-> "D"]

StoredKeys == {KeyA, KeyB, KeyC, KeyD}

\* the keys a server presents as plain (non-certificate) host keys
PresentedKeys == {KeyA, KeyC}

\* fakePublicKey
fakePublicKey == [typ |-> "fake-public-key", blob |-> "fake public key"]

\* base64.StdEncoding.EncodeToString(key.Marshal())
Base64Encode(blob) ==
    CASE blob = "A" -> "QQ=="
      [] blob = "B" -> "Qg=="
      [] blob = "C" -> "Qw=="
      [] blob = "D" -> "RA=="
      [] OTHER -> "ZmFrZSBwdWJsaWMga2V5"

(***************************************************************************)
(* Line and WriteKnownHost.                                                *)
(***************************************************************************)
RECURSIVE JoinComma(_)
\* strings.Join(trimmed, ",")
JoinComma(addrs) ==
    IF Len(addrs) = 0 THEN <<>>
    ELSE IF Len(addrs) = 1 THEN addrs[1]
    ELSE addrs[1] \o <<",">> \o JoinComma(Tail(addrs))

Line(addresses, key) ==
    LET trimmed == [n \in 1..Len(addresses) |-> Normalize(addresses[n])]
    IN  JoinComma(trimmed) \o <<" ">> \o <<key.typ>> \o <<" ">>
            \o <<Base64Encode(key.blob)>>

\* Normalize of the placeholder/zero remote address "0.0.0.0:0"
ZeroRemoteNormalized == <<"[", "0", ".", "0", ".", "0", ".", "0", "]", ":", "0">>

\* A mutant: the white space check is made on the remote address and the
\* hostname is written as it is.
WriteKnownHostUnchecked(hostname, remote, key) ==
    LET hostnameNormalized == Normalize(hostname)
        remoteStrNormalized == Normalize(remote)
    IN  IF ContainsWhiteSpace(remoteStrNormalized)
        THEN [err |-> TRUE, written |-> <<>>]
        ELSE [err |-> FALSE,
              written |-> <<Line(<<hostnameNormalized>>, key)>>]

\* WriteKnownHost: whether it returns an error, and the lines it wrote to w
\* (each written with its terminating "\n" in one Write call).
WriteKnownHost(hostname, remote, key) ==
    LET hostnameNormalized == Normalize(hostname)
        remoteStrNormalized == Normalize(remote)
        addresses ==
            IF /\ remoteStrNormalized # ZeroRemoteNormalized
               /\ remoteStrNormalized # hostnameNormalized
               /\ ~ContainsWhiteSpace(remoteStrNormalized)
            THEN <<hostnameNormalized, remoteStrNormalized>>
            ELSE <<hostnameNormalized>>
    IN  IF ContainsWhiteSpace(hostnameNormalized)
        THEN [err |-> TRUE, written |-> <<>>]
        ELSE [err |-> FALSE, written |-> <<Line(addresses, key)>>]

(***************************************************************************)
(* The known_hosts matcher of golang.org/x/crypto/ssh/knownhosts (the      *)
(* version go.mod requires), which New and NewDB wrap: reading the files   *)
(* into lines, matching a host against the lines, and the KeyError it      *)
(* returns.  Hashed host tokens and @revoked lines do not occur in the     *)
(* files of this model.                                                    *)
(***************************************************************************)
FileNames == {"a", "b"}

\* the known_hosts file the callback of cmd/main.go appends to
khPath == "a"

\* Filename < Filename of Go, on the file names of the model
FilenameLess(f, g) == f = "a" /\ g = "b"

CertAuthorityMarker ==
    <<"@", "c", "e", "r", "t", "-", "a", "u", "t", "h", "o", "r", "i", "t", "y">>

FirstWhiteSpace(s) ==
    IF \E i \in 1..Len(s) : s[i] \in WhiteSpace
    THEN CHOOSE i \in 1..Len(s) :
            s[i] \in WhiteSpace /\ \A j \in 1..(i - 1) : s[j] \notin WhiteSpace
    ELSE 0

RECURSIVE Fields(_)
\* the words of a line, as successive nextWord calls return them
Fields(line) ==
    LET t == TrimLeft(line)
        i == FirstWhiteSpace(t)
    IN  IF Len(t) = 0 THEN <<>>
        ELSE IF i = 0 THEN <<t>>
        ELSE <<SubSeq(t, 1, i - 1)>> \o Fields(Tail1(t, i))

RECURSIVE SplitComma(_)
\* strings.Split(pattern, ",")
SplitComma(s) ==
    LET i == IndexByte(s, ",")
    IN  IF i = 0 THEN <<s>>
        ELSE <<SubSeq(s, 1, i - 1)>> \o SplitComma(Tail1(s, i + 1))

\* base64 decoding and ssh.ParsePublicKey of the key blob field
ParsePublicKey(field) ==
    IF Len(field) = 1 /\ \E k \in StoredKeys : Base64Encode(k.blob) = field[1]
    THEN [ok |-> TRUE,
          key |-> CHOOSE k \in StoredKeys : Base64Encode(k.blob) = field[1]]
    ELSE [ok |-> FALSE, key |-> fakePublicKey]

\* one host pattern of a line: negation, host and port
HostPattern(p) ==
    LET negate == HasPrefixByte(p, "!")
        q == IF negate THEN Tail(p) ELSE p
        r == SplitHostPort(q)
    IN  IF Len(q) = 0 THEN [ok |-> FALSE]
        ELSE IF r.err /\ q[1] = "[" THEN [ok |-> FALSE]
        ELSE [ok |-> TRUE, negate |-> negate,
              host |-> IF r.err THEN q ELSE r.host,
              port |-> IF r.err THEN Port22 ELSE r.port]

\* newHostnameMatcher
HostnameMatcher(pattern) ==
    LET ps == SelectSeq(SplitComma(pattern), LAMBDA p : Len(p) > 0)
        hps == [n \in 1..Len(ps) |-> HostPattern(ps[n])]
    IN  IF \E n \in 1..Len(hps) : ~hps[n].ok THEN [ok |-> FALSE, hps |-> <<>>]
        ELSE [ok |-> TRUE, hps |-> hps]

\* the parse of line number linenum of file filename: skipped (blank or
\* comment), an error, or a keyDBLine
ParseLine(raw, filename, linenum) ==
    LET line == TrimSpace(raw)
        w == Fields(line)
        marked == Len(w) > 0 /\ w[1] = CertAuthorityMarker
        rest == IF marked THEN Tail(w) ELSE w
        pk == ParsePublicKey(rest[3])
        m == HostnameMatcher(rest[1])
    IN  IF Len(line) = 0 \/ line[1] = "#" THEN [kind |-> "skip"]
        ELSE IF Len(rest) < 3 THEN [kind |-> "error"]
        ELSE IF ~pk.ok \/ ~m.ok THEN [kind |-> "error"]
        ELSE [kind |-> "line", cert |-> marked, matcher |-> m.hps,
              knownKey |-> [Key |-> pk.key, Filename |-> filename,
                            Line |-> linenum]]

RECURSIVE ReadFiles(_, _)
\* the parses of all lines of the files, in the order the files are given
ReadFiles(order, fs) ==
    IF Len(order) = 0 THEN <<>>
    ELSE [n \in 1..Len(fs[order[1]]) |->
            ParseLine(fs[order[1]][n], order[1], n)]
         \o ReadFiles(Tail(order), fs)

RECURSIVE wildcardMatch(_, _)
wildcardMatch(pat, str) ==
    IF Len(pat) = 0 THEN Len(str) = 0
    ELSE IF Len(str) = 0 THEN FALSE
    ELSE IF pat[1] = "*"
    THEN Len(pat) = 1
         \/ \E j \in 1..Len(str) : wildcardMatch(Tail(pat), Tail1(str, j))
    ELSE IF pat[1] = "?" \/ pat[1] = str[1]
    THEN wildcardMatch(Tail(pat), Tail(str))
    ELSE FALSE

\* hostPatterns.match
MatchHost(hps, a) ==
    LET hit(n) == wildcardMatch(hps[n].host, a.host) /\ hps[n].port = a.port
    IN  /\ \E n \in 1..Len(hps) : hit(n)
        /\ \A n \in 1..Len(hps) : hit(n) => ~hps[n].negate

\* checkAddr: for each key type the first matching line, in reading order
KnownKeysOf(lines, a) ==
    {lines[n].knownKey : n \in
        {n \in 1..Len(lines) :
            /\ MatchHost(lines[n].matcher, a)
            /\ \A k \in 1..(n - 1) :
                  MatchHost(lines[k].matcher, a)
                      => lines[k].knownKey.Key.typ # lines[n].knownKey.Key.typ}}

\* the orders in which a Go map of these known keys may be listed
Orderings(S) ==
    {s \in [1..Cardinality(S) -> S] : \A x \in S : \E n \in DOMAIN s : s[n] = x}

NilError == [kind |-> "nil", want |-> <<>>]
OtherError == [kind |-> "Other", want |-> <<>>]
KeyError(want) == [kind |-> "KeyError", want |-> want]

\* The results the callback built from lines may return for a host key check
\* (one for each order the wanted keys may be listed in).
CheckResults(lines, address, remote, remoteKey) ==
    LET r == SplitHostPort(remote)
        h == SplitHostPort(address)
        a == [host |-> h.host, port |-> h.port]
        known == KnownKeysOf(lines, a)
    IN  IF r.err \/ h.err THEN {OtherError}
        ELSE IF known = {} THEN {KeyError(<<>>)}
        ELSE IF \E k \in known : k.Key = remoteKey THEN {NilError}
        ELSE {KeyError(w) : w \in Orderings(known)}

(***************************************************************************)
(* NewDB and New.                                                          *)
(***************************************************************************)
\* NewDB's own scan: does the line start with "@cert-authority" followed by
\* white space?
IsCertAuthorityLine(raw) ==
    LET line == TrimSpace(raw)
    IN  /\ Len(line) > 15
        /\ SubSeq(line, 1, 15) = CertAuthorityMarker
        /\ (line[16] = " " \/ line[16] = "\t")

\* The HostKeyDB NewDB(order...) returns for the files fs: the lines behind
\* its callback and its isCert map (keyed by file name and line number);
\* built is FALSE when NewDB returns an error.  The fields by and order
\* record the call that built it.
NewDB(order, fs) ==
    LET parsed == ReadFiles(order, fs)
    IN  IF \E n \in 1..Len(parsed) : parsed[n].kind = "error"
        THEN [built |-> FALSE, by |-> "NewDB", order |-> order,
              lines |-> <<>>, isCert |-> {}]
        ELSE [built |-> TRUE, by |-> "NewDB", order |-> order,
              lines |-> SelectSeq(parsed, LAMBDA l : l.kind = "line"),
              isCert |-> UNION {{<<order[i], n>> :
                                  n \in {n \in 1..Len(fs[order[i]]) :
                                    IsCertAuthorityLine(fs[order[i]][n])}} :
                                i \in 1..Len(order)}]

\* The HostKeyCallback New(order...) returns, as the HostKeyDB its methods
\* use: the same callback and no isCert map.
New(order, fs) == [NewDB(order, fs) EXCEPT !.isCert = {}, !.by = "New"]

NoDB == [built |-> FALSE, by |-> "none", order |-> <<>>, lines |-> <<>>,
         isCert |-> {}]

(***************************************************************************)
(* IsHostKeyChanged and IsHostUnknown.                                     *)
(***************************************************************************)
\* errors.As(err, &keyErr): err is a *KeyError or wraps one
AsKeyError(err) == err.kind \in {"KeyError", "WrappedKeyError"}

\* A mutant: any KeyError counts as an unknown host.
IsHostUnknownAnyKeyError(err) == AsKeyError(err)

IsHostKeyChanged(err) == AsKeyError(err) /\ Len(err.want) > 0

IsHostUnknown(err) == AsKeyError(err) /\ Len(err.want) = 0

(***************************************************************************)
(* HostKeyDB.HostKeys.                                                     *)
(***************************************************************************)
\* the placeholder remote address of HostKeys, as net.TCPAddr prints it
placeholderAddr == <<"0", ".", "0", ".", "0", ".", "0", ":", "0">>

knownKeyLess(x, y) ==
    \/ FilenameLess(x.Filename, y.Filename)
    \/ (x.Filename = y.Filename /\ x.Line < y.Line)

RECURSIVE SinkDown(_, _)
\* the inner loop of the insertion sort sort.Slice runs on short slices
SinkDown(s, j) ==
    IF j > 1 /\ knownKeyLess(s[j], s[j - 1])
    THEN SinkDown([s EXCEPT ![j] = s[j - 1], ![j - 1] = s[j]], j - 1)
    ELSE s

RECURSIVE SortFrom(_, _)
SortFrom(s, i) == IF i > Len(s) THEN s ELSE SortFrom(SinkDown(s, i), i + 1)

\* sort.Slice(kkeys, knownKeyLess)
SortKnownKeys(kkeys) == SortFrom(kkeys, 2)

\* HostKeys of a HostKeyDB with map isCert, whose callback returned hkcbErr
\* for the placeholder key
HostKeys(isCert, hkcbErr) ==
    IF AsKeyError(hkcbErr)
    THEN LET kkeys == SortKnownKeys(hkcbErr.want)
         IN  [n \in 1..Len(kkeys) |->
                [PublicKey |-> kkeys[n].Key,
                 Cert |-> isCert # {}
                          /\ <<kkeys[n].Filename, kkeys[n].Line>> \in isCert]]
    ELSE <<>>

\* whether the slice HostKeys returns is nil.  HostKeyDB.HostKeys leaves its
\* result keys nil unless the callback's error is a KeyError, for which it
\* makes a slice (of length 0 when Want is empty); HostKeyCallback.HostKeys,
\* the method of what New returns, always makes its result slice.
HostKeysIsNil(by, hkcbErr) == by = "NewDB" /\ ~AsKeyError(hkcbErr)

(***************************************************************************)
(* HostKeyDB.HostKeyAlgorithms.                                            *)
(***************************************************************************)
keyTypeToCertAlgo(keyType) ==
    CASE keyType = KeyAlgoRSA -> CertAlgoRSAv01
      [] keyType = KeyAlgoRSASHA256 -> CertAlgoRSASHA256v01
      [] keyType = KeyAlgoRSASHA512 -> CertAlgoRSASHA512v01
      [] keyType = "ssh-dss" -> "ssh-dss-cert-v01@openssh.com"
      [] keyType = "ecdsa-sha2-nistp256"
            -> "ecdsa-sha2-nistp256-cert-v01@openssh.com"
      [] keyType = "sk-ecdsa-sha2-nistp256@openssh.com"
            -> "sk-ecdsa-sha2-nistp256-cert-v01@openssh.com"
      [] keyType = "ecdsa-sha2-nistp384"
            -> "ecdsa-sha2-nistp384-cert-v01@openssh.com"
      [] keyType = "ecdsa-sha2-nistp521"
            -> "ecdsa-sha2-nistp521-cert-v01@openssh.com"
      [] keyType = KeyAlgoED25519 -> CertAlgoED25519v01
      [] keyType = "sk-ssh-ed25519@openssh.com"
            -> "sk-ssh-ed25519-cert-v01@openssh.com"
      [] OTHER -> ""

\* A mutant: an algorithm is appended whether or not it was seen before.
addAlgoNoSeen(st, typ, cert) ==
    LET t == IF cert THEN keyTypeToCertAlgo(typ) ELSE typ
    IN  [algos |-> Append(st.algos, t), seen |-> st.seen \cup {t}]

\* the closure addAlgo, on the pair (algos, seen) it updates
addAlgo(st, typ, cert) ==
    LET t == IF cert THEN keyTypeToCertAlgo(typ) ELSE typ
    IN  IF t \in st.seen THEN st
        ELSE [algos |-> Append(st.algos, t), seen |-> st.seen \cup {t}]

RECURSIVE AlgoLoop(_, _)
\* the loop over hostKeys
AlgoLoop(hostKeys, st) ==
    IF Len(hostKeys) = 0 THEN st
    ELSE LET key == hostKeys[1]
             typ == key.PublicKey.typ
             st1 == IF typ = KeyAlgoRSA
                    THEN addAlgo(addAlgo(st, KeyAlgoRSASHA512, key.Cert),
                                 KeyAlgoRSASHA256, key.Cert)
                    ELSE st
         IN  AlgoLoop(Tail(hostKeys), addAlgo(st1, typ, key.Cert))

\* HostKeyAlgorithms, from the result of HostKeys
HostKeyAlgorithms(hostKeys) ==
    AlgoLoop(hostKeys, [algos |-> <<>>, seen |-> {}]).algos

(***************************************************************************)
(* The permissive host key callback of cmd/main.go.                        *)
(***************************************************************************)
\* A mutant: the unknown-host test comes first and accepts any KeyError.
CallbackDecisionUnknownFirst(err) ==
    IF AsKeyError(err) THEN "append"
    ELSE IF IsHostKeyChanged(err) THEN "reject"
    ELSE "return"

\* what the callback does with the inner callback's result
CallbackDecision(err) ==
    IF IsHostKeyChanged(err) THEN "reject"
    ELSE IF IsHostUnknown(err) THEN "append"
    ELSE "return"

\* the error of the "REMOTE HOST IDENTIFICATION HAS CHANGED" message
ChangedError == [kind |-> "Changed", want |-> <<>>]

(***************************************************************************)
(* The inputs of the model.                                                *)
(***************************************************************************)
H22 == <<"h", ":", "2", "2">>
H21 == <<"h", ":", "2", "1">>
V6p22 == <<"[", ":", ":", "1", "]", ":", "2", "2">>
HComma == <<"h", ",", "g", ":", "2", "2">>
HSpace == <<"h", " ", "h", ":", "2", "2">>
HNoPort == <<"h">>

V6p21 == <<"[", ":", ":", "1", "]", ":", "2", "1">>

\* the hostname argument of the callback and of the lookups
Hostnames == {H22, H21, V6p22, V6p21, HComma, HSpace, HNoPort}

R1 == <<"1", ":", "2", "2">>
RSpace == <<"1", " ", "1", ":", "2", "2">>

\* remote.String() of the callback's remote address
Remotes == {placeholderAddr, R1, RSpace}

\* the text of a known_hosts line written by hand or by OpenSSH
TextLine(prefix, pattern, key) ==
    prefix \o pattern \o <<" ", key.typ, " ", Base64Encode(key.blob)>>

CAPrefix == CertAuthorityMarker \o <<" ">>
CAPrefixTab == CertAuthorityMarker \o <<"\t">>
Comment == <<"#", " ", "c">>

\* the known_hosts files the program may start with
InitialFiles ==
    { [a |-> <<>>, b |-> <<>>],
      [a |-> <<TextLine(<<>>, <<"h">>, KeyA)>>,
       b |-> <<TextLine(<<>>, <<"h">>, KeyB)>>],
      [a |-> <<Comment, TextLine(CAPrefix, <<"h">>, KeyC)>>,
       b |-> <<TextLine(<<>>, <<"h">>, KeyB)>>],
      [a |-> <<TextLine(CAPrefix, <<"h">>, KeyD)>>, b |-> <<>>],
      [a |-> <<TextLine(<<>>, <<"h">>, KeyD),
               TextLine(CAPrefixTab, <<"h">>, KeyC)>>,
       b |-> <<>>],
      [a |-> <<TextLine(<<>>, <<"h">>, KeyC)>>,
       b |-> <<TextLine(CAPrefix, <<"*">>, KeyC)>>] }

\* the handshakes the permissive callback sees: hostname, remote address and
\* presented key
Handshakes ==
    ({HSpace, HNoPort} \X Remotes \X PresentedKeys) \cup
    { <<H22, placeholderAddr, KeyA>>, <<H22, R1, KeyC>>, <<H21, R1, KeyA>>,
      <<V6p22, RSpace, KeyC>>, <<V6p21, placeholderAddr, KeyC>>,
      <<HComma, placeholderAddr, KeyA>> }

\* the orders in which files are passed to NewDB and New
FileOrders == {<<"a">>, <<"a", "b">>, <<"b", "a">>}

\* the KnownKeys a callback not built by this package may list
ForeignKnownKeys ==
    {[Key |-> k, Filename |-> f, Line |-> n] :
        k \in {KeyA, KeyB, KeyC}, f \in FileNames, n \in 1..2}

\* the results of a callback not built by this package
ForeignErrors ==
    {NilError, OtherError} \cup
    {[kind |-> k, want |-> w] :
        k \in {"KeyError", "WrappedKeyError"},
        w \in UNION {[1..n -> ForeignKnownKeys] : n \in 0..MaxWant}}

(***************************************************************************)
(* The state machine: the calls a program makes on the package.            *)
(***************************************************************************)
Init ==
    /\ files \in InitialFiles
    /\ db = NoDB
    /\ last = [op |-> "none"]
    /\ appends = 0
    /\ nAddr = <<>> /\ nOut = <<>> /\ nOut2 = <<>> /\ npc = "idle"

NormVars == <<nAddr, nOut, nOut2, npc>>

\* kh, err := knownhosts.NewDB(order...)
NewDBCall(order) ==
    /\ db' = NewDB(order, files)
    /\ last' = [op |-> "NewDB", order |-> order]
    /\ UNCHANGED <<files, appends, NormVars>>

\* kh, err := knownhosts.New(order...)
NewCall(order) ==
    /\ db' = New(order, files)
    /\ last' = [op |-> "New", order |-> order]
    /\ UNCHANGED <<files, appends, NormVars>>

\* the callback cb of NewDBWriteKnownHost / NewWriteKnownHost, called by the
\* SSH handshake; openOK is whether os.OpenFile succeeds
CallbackCall(hostname, remote, key) ==
    /\ db.built
    /\ \E inner \in CheckResults(db.lines, hostname, remote, key),
          openOK \in BOOLEAN :
        LET decision == CallbackDecision(inner)
            w == WriteKnownHost(hostname, remote, key)
            written == IF decision = "append" /\ openOK THEN w.written ELSE <<>>
            ret == IF decision = "reject" THEN ChangedError
                   ELSE IF decision = "append" THEN NilError
                   ELSE inner
        IN  /\ appends + Len(written) <= MaxAppends
            /\ files' = [files EXCEPT ![khPath] = files[khPath] \o written]
            /\ appends' = appends + Len(written)
            /\ last' = [op |-> "callback", hostname |-> hostname,
                        remote |-> remote, key |-> key, inner |-> inner,
                        called |-> decision = "append" /\ openOK,
                        ferr |-> decision = "append" /\ (~openOK \/ w.err),
                        before |-> files[khPath],
                        ret |-> ret]
    /\ UNCHANGED <<db, NormVars>>

Next ==
    \/ \E order \in FileOrders : NewDBCall(order)
    \/ \E order \in FileOrders : NewCall(order)
    \/ \E hs \in Handshakes : CallbackCall(hs[1], hs[2], hs[3])

Spec == Init /\ [][Next]_vars

(***************************************************************************)
(* The lookups.  They change nothing, so one lookup on each DB (and one    *)
(* call on each result of a callback not built by this package) reaches    *)
(* every result.                                                           *)
(***************************************************************************)
\* kh.HostKeyCallback()(hostname, remote, key), and the two classifiers on
\* its result
VerifyCall(hostname, remote, key) ==
    /\ db.built
    /\ \E err \in CheckResults(db.lines, hostname, remote, key) :
        last' = [op |-> "verify", hostname |-> hostname, remote |-> remote,
                 key |-> key, err |-> err,
                 changed |-> IsHostKeyChanged(err),
                 unknown |-> IsHostUnknown(err)]
    /\ UNCHANGED <<files, db, appends, NormVars>>

\* kh.HostKeys(host)
HostKeysCall(host) ==
    /\ db.built
    /\ \E hkcbErr \in CheckResults(db.lines, host, placeholderAddr, fakePublicKey) :
        last' = [op |-> "HostKeys", host |-> host, hkcbErr |-> hkcbErr,
                 keys |-> HostKeys(db.isCert, hkcbErr),
                 isNil |-> HostKeysIsNil(db.by, hkcbErr)]
    /\ UNCHANGED <<files, db, appends, NormVars>>

\* kh.HostKeyAlgorithms(host)
HostKeyAlgorithmsCall(host) ==
    /\ db.built
    /\ \E hkcbErr \in CheckResults(db.lines, host, placeholderAddr, fakePublicKey) :
        LET hostKeys == HostKeys(db.isCert, hkcbErr)
        IN  last' = [op |-> "HostKeyAlgorithms", host |-> host,
                     hkcbErr |-> hkcbErr, keys |-> hostKeys,
                     algos |-> HostKeyAlgorithms(hostKeys)]
    /\ UNCHANGED <<files, db, appends, NormVars>>

\* knownhosts.HostKeyAlgorithms(cb, host) for a callback cb not built by this
\* package, which returns err for the placeholder key
ForeignHostKeyAlgorithmsCall(err) ==
    /\ ~db.built
    /\ LET hostKeys == HostKeys({}, err)
       IN  last' = [op |-> "HostKeyAlgorithms", host |-> H22, hkcbErr |-> err,
                    keys |-> hostKeys, algos |-> HostKeyAlgorithms(hostKeys)]
    /\ UNCHANGED <<files, db, appends, NormVars>>

\* IsHostKeyChanged(err) and IsHostUnknown(err) on the result of any callback
ClassifyCall(err) ==
    /\ ~db.built
    /\ last' = [op |-> "classify", err |-> err,
                changed |-> IsHostKeyChanged(err),
                unknown |-> IsHostUnknown(err)]
    /\ UNCHANGED <<files, db, appends, NormVars>>

Fresh == last.op = "none"

Built == last.op \in {"NewDB", "New"}

NextLookup ==
    \/ Fresh /\ \E order \in FileOrders : NewDBCall(order)
    \/ Fresh /\ \E order \in FileOrders : NewCall(order)
    \/ Built /\ \E hostname \in Hostnames, remote \in Remotes, key \in PresentedKeys :
          VerifyCall(hostname, remote, key)
    \/ Built /\ \E host \in Hostnames : HostKeysCall(host)
    \/ Built /\ \E host \in Hostnames : HostKeyAlgorithmsCall(host)
    \/ Fresh /\ \E err \in ForeignErrors : ForeignHostKeyAlgorithmsCall(err)
    \/ Fresh /\ \E err \in ForeignErrors : ClassifyCall(err)

SpecLookup == Init /\ [][NextLookup]_vars

(***************************************************************************)
(* Normalize on bounded inputs.                                            *)
(***************************************************************************)
Alphabet == {"h", ":", "[", "]", "2", "1", " "}

BodyAlphabet == {"h", ":", "1", "2"}

Host == <<"h", "o", "s", "t">>

Port2222 == <<"2", "2", "2", "2">>

\* every string of at most MaxLen characters
AllStrings == UNION {[1..n -> Alphabet] : n \in 0..MaxLen}

\* the host part of the structured addresses
Bodies == UNION {[1..n -> BodyAlphabet] : n \in 0..MaxHostLen} \cup {Host}

\* optional bracket, host, optional bracket, optional colon and port
Structured ==
    {lb \o body \o rb \o pp :
        lb \in {<<>>, <<"[">>}, body \in Bodies, rb \in {<<>>, <<"]">>},
        pp \in {<<>>, <<":">>, <<":">> \o Port22, <<":">> \o Port2222,
                <<":", "2", "1">>}}

NormInputs == AllStrings \cup Structured

InitNormalize ==
    /\ files = [a |-> <<>>, b |-> <<>>]
    /\ db = NoDB
    /\ last = [op |-> "none"]
    /\ appends = 0
    /\ nAddr \in NormInputs
    /\ nOut = <<>> /\ nOut2 = <<>> /\ npc = "input"

\* out := Normalize(address)
NormalizeOnce ==
    /\ npc = "input"
    /\ nOut' = Normalize(nAddr)
    /\ npc' = "once"
    /\ UNCHANGED <<files, db, last, appends, nAddr, nOut2>>

\* out2 := Normalize(out)
NormalizeAgain ==
    /\ npc = "once"
    /\ nOut2' = Normalize(nOut)
    /\ npc' = "twice"
    /\ UNCHANGED <<files, db, last, appends, nAddr, nOut>>

NextNormalize == NormalizeOnce \/ NormalizeAgain

SpecNormalize == InitNormalize /\ [][NextNormalize]_vars

(***************************************************************************)
(* Properties of Normalize (checked under SpecNormalize).                  *)
(***************************************************************************)
\* C7: Normalize's output is a function of the resolved host and port only:
\* an address that does not split is host-only with port 22; with a port
\* other than 22 the output is [host]:port; with port 22 it is the bare host
\* with surrounding brackets removed.  So Normalize("host") =
\* Normalize("host:22") = "host", Normalize("host:2222") = "[host]:2222" and
\* Normalize("[::1]:22") = "::1".
C7_NormalizeByHostAndPort ==
    npc # "input" =>
        LET r == SplitHostPort(nAddr)
            host == IF r.err THEN nAddr ELSE r.host
            port == IF r.err THEN Port22 ELSE r.port
            bracketed == Len(host) >= 2 /\ host[1] = "[" /\ host[Len(host)] = "]"
        IN  /\ port # Port22 => nOut = <<"[">> \o host \o <<"]", ":">> \o port
            /\ port = Port22 /\ bracketed
                  => nOut = [n \in 1..(Len(host) - 2) |-> host[n + 1]]
            /\ port = Port22 /\ ~bracketed => nOut = host
            /\ nAddr = Host => nOut = Host
            /\ nAddr = Host \o <<":">> \o Port22 => nOut = Host
            /\ nAddr = Host \o <<":">> \o Port2222
                  => nOut = <<"[">> \o Host \o <<"]", ":">> \o Port2222
            /\ nAddr = V6p22 => nOut = <<":", ":", "1">>

C7_Witness ==
    /\ npc = "once"
    /\ nAddr = V6p22
    /\ nOut = <<":", ":", "1">>

\* a host name: letters and digits, no colon, bracket or white space
IsHostName(s) ==
    Len(s) > 0 /\ \A i \in 1..Len(s) : s[i] \in {"h", "o", "s", "t", "1", "2"}

\* an IPv6 literal: hexadecimal digits and at least two colons
IsIPv6(s) ==
    /\ \A i \in 1..Len(s) : s[i] \in {"h", "1", "2", ":"}
    /\ Cardinality({i \in 1..Len(s) : s[i] = ":"}) >= 2

IsPort(s) == Len(s) > 0 /\ \A i \in 1..Len(s) : s[i] \in {"1", "2"}

IsBracketedHost(s) ==
    /\ Len(s) > 2 /\ s[1] = "[" /\ s[Len(s)] = "]"
    /\ LET b == SubSeq(s, 2, Len(s) - 1) IN IsHostName(b) \/ IsIPv6(b)

\* a well-formed host[:port]: a host name, an IPv6 literal or a bracketed
\* host, or a host name or bracketed host followed by a colon and a port
WellFormed(x) ==
    \/ IsHostName(x) \/ IsIPv6(x) \/ IsBracketedHost(x)
    \/ \E i \in 1..Len(x) :
        /\ x[i] = ":"
        /\ IsPort(Tail1(x, i + 1))
        /\ (IsHostName(SubSeq(x, 1, i - 1)) \/ IsBracketedHost(SubSeq(x, 1, i - 1)))

\* C8: Normalize is idempotent on every well-formed host[:port] string:
\* Normalize(Normalize(x)) = Normalize(x).
C8_NormalizeIdempotent ==
    (npc = "twice" /\ WellFormed(nAddr)) => nOut2 = nOut

C8_Witness ==
    /\ npc = "twice"
    /\ nAddr = V6p21
    /\ WellFormed(nAddr)
    /\ nOut = V6p21
    /\ nOut2 = nOut

(***************************************************************************)
(* Properties of the classifiers and the lookups (checked under            *)
(* SpecLookup).                                                            *)
(***************************************************************************)
\* C2: for every result of a host key callback, IsHostKeyChanged and
\* IsHostUnknown are never both true: the first is true exactly for a
\* KeyError (possibly wrapped) with wanted keys, the second exactly for a
\* KeyError with none, and both are false for nil and for any other error.
\* So a verification of a host that no line matches is never KeyChanged, and
\* is HostUnknown whenever the matcher gets to look the host up (hostname and
\* remote address of the form host:port).
C2_ChangedXorUnknown ==
    last.op \in {"classify", "verify"} =>
        LET e == last.err
            structured == e.kind \in {"KeyError", "WrappedKeyError"}
        IN  /\ ~(last.changed /\ last.unknown)
            /\ last.changed <=> (structured /\ Len(e.want) >= 1)
            /\ last.unknown <=> (structured /\ e.want = <<>>)
            /\ e.kind \in {"nil", "Other"} => ~last.changed /\ ~last.unknown
            /\ last.op = "verify" =>
                LET h == SplitHostPort(last.hostname)
                    r == SplitHostPort(last.remote)
                    nomatch == \A n \in 1..Len(db.lines) :
                                  ~MatchHost(db.lines[n].matcher,
                                             [host |-> h.host, port |-> h.port])
                IN  /\ nomatch => ~last.changed
                    /\ nomatch /\ ~h.err /\ ~r.err => last.unknown

C2_Witness ==
    /\ last.op = "verify"
    /\ last.hostname = H21
    /\ Len(db.lines) > 0
    /\ last.err = KeyError(<<>>)
    /\ last.unknown /\ ~last.changed

RECURSIVE Flatten(_)
\* the concatenation of a sequence of sequences
Flatten(ss) == IF Len(ss) = 0 THEN <<>> ELSE ss[1] \o Flatten(Tail(ss))

RECURSIVE KeepFirsts(_, _)
KeepFirsts(s, i) ==
    IF i > Len(s) THEN <<>>
    ELSE (IF \E j \in 1..(i - 1) : s[j] = s[i] THEN <<>> ELSE <<s[i]>>)
         \o KeepFirsts(s, i + 1)

\* the order-preserving deduplication of a sequence
Dedup(s) == KeepFirsts(s, 1)

\* C4: HostKeyAlgorithms returns the order-preserving deduplication of the
\* concatenation, over the HostKeys entries in order, of each entry's
\* contribution: rsa-sha2-512, rsa-sha2-256, ssh-rsa for an ssh-rsa entry and
\* the key type for any other, each after CA substitution when the entry is
\* flagged CA.  So no identifier occurs twice, and a host whose only known
\* key is a plain RSA key yields [rsa-sha2-512, rsa-sha2-256, ssh-rsa].
C4_AlgorithmsAreDedupOfContributions ==
    last.op = "HostKeyAlgorithms" =>
        LET contribution(k) ==
                LET base == IF k.PublicKey.typ = "ssh-rsa"
                            THEN <<"rsa-sha2-512", "rsa-sha2-256", "ssh-rsa">>
                            ELSE <<k.PublicKey.typ>>
                IN  [i \in 1..Len(base) |->
                        IF k.Cert THEN keyTypeToCertAlgo(base[i]) ELSE base[i]]
            all == Flatten([n \in 1..Len(last.keys) |-> contribution(last.keys[n])])
        IN  /\ last.algos = Dedup(all)
            /\ \A i, j \in 1..Len(last.algos) :
                  i # j => last.algos[i] # last.algos[j]
            /\ last.keys = <<[PublicKey |-> KeyA, Cert |-> FALSE]>>
                  => last.algos = <<"rsa-sha2-512", "rsa-sha2-256", "ssh-rsa">>

C4_Witness ==
    /\ last.op = "HostKeyAlgorithms"
    /\ db.built
    /\ last.keys = <<[PublicKey |-> KeyD, Cert |-> FALSE],
                     [PublicKey |-> KeyC, Cert |-> TRUE]>>
    /\ last.algos = <<CertAlgoED25519v01>>

\* the wanted keys of the last lookup, ascending by (file name, line number)
WantedAscending ==
    LET S == {last.hkcbErr.want[n] : n \in 1..Len(last.hkcbErr.want)}
    IN  CHOOSE p \in Orderings(S) :
            \A i, j \in 1..Len(p) : i < j =>
                \/ FilenameLess(p[i].Filename, p[j].Filename)
                \/ (p[i].Filename = p[j].Filename /\ p[i].Line < p[j].Line)

\* the line is an @cert-authority line: trimmed, it starts with
\* "@cert-authority" followed by a space or a tab
IsCALine(raw) ==
    LET t == TrimSpace(raw)
    IN  /\ Len(t) >= 16
        /\ \A i \in 1..15 : t[i] = CertAuthorityMarker[i]
        /\ t[16] \in {" ", "\t"}

\* the certificate algorithm of a public key algorithm, where there is one
CertVariantOf(typ) ==
    CASE typ = "ssh-rsa" -> "ssh-rsa-cert-v01@openssh.com"
      [] typ = "rsa-sha2-256" -> "rsa-sha2-256-cert-v01@openssh.com"
      [] typ = "rsa-sha2-512" -> "rsa-sha2-512-cert-v01@openssh.com"
      [] typ = "ssh-ed25519" -> "ssh-ed25519-cert-v01@openssh.com"
      [] OTHER -> "(no certificate algorithm)"

\* C5: through a HostKeyDB built by NewDB, the identifiers HostKeyAlgorithms
\* emits for a known key are the certificate algorithms of its key type if
\* and only if the key's (file name, line number) is an @cert-authority line
\* of the files the DB was built from, and the plain identifiers otherwise;
\* a host whose only known key is an ed25519 key on an @cert-authority line
\* yields exactly the ed25519 certificate algorithm.
C5_CertAlgorithmIffCALine ==
    (last.op = "HostKeyAlgorithms" /\ db.built /\ db.by = "NewDB") =>
        LET kk == WantedAscending
            emitted(k) ==
                LET base == IF k.Key.typ = "ssh-rsa"
                            THEN <<"rsa-sha2-512", "rsa-sha2-256", "ssh-rsa">>
                            ELSE <<k.Key.typ>>
                IN  [i \in 1..Len(base) |->
                        IF IsCALine(files[k.Filename][k.Line])
                        THEN CertVariantOf(base[i]) ELSE base[i]]
        IN  last.algos = Dedup(Flatten([n \in 1..Len(kk) |-> emitted(kk[n])]))

\* C6: HostKeys returns the known keys ascending by (file name, line number)
\* whatever order the callback lists them in, and for every host the result
\* is the one the DB built from the two files in the other order returns.
C6_SortedAndFileOrderIndependent ==
    /\ (last.op = "HostKeys" /\ db.built) =>
          /\ Len(last.keys) = Len(last.hkcbErr.want)
          /\ \A n \in 1..Len(last.keys) :
                last.keys[n].PublicKey = WantedAscending[n].Key
    /\ (last.op = "HostKeys" /\ db.built /\ Len(db.order) = 2) =>
          LET d == NewDB(<<db.order[2], db.order[1]>>, files)
          IN  last.keys \in
                {HostKeys(d.isCert, e) :
                    e \in CheckResults(d.lines, last.host, placeholderAddr,
                                       fakePublicKey)}

\* C10: HostKeyAlgorithms never returns a list containing the empty string.
C10_NoEmptyAlgorithm ==
    last.op = "HostKeyAlgorithms" =>
        \A i \in 1..Len(last.algos) : last.algos[i] # ""

(***************************************************************************)
(* Properties of the permissive callback and of WriteKnownHost (checked    *)
(* under Spec).                                                            *)
(***************************************************************************)
\* C1: when the inner callback reports a mismatch with at least one known key
\* on record for the host, the permissive callback returns an error (and
\* appends nothing); it returns nil only when the inner callback returned
\* nil or reported a mismatch with no known key.
C1_ChangedKeyNeverPermitted ==
    last.op = "callback" =>
        LET e == last.inner
            mismatch == e.kind \in {"KeyError", "WrappedKeyError"}
            h == SplitHostPort(last.hostname)
            r == SplitHostPort(last.remote)
            known == KnownKeysOf(db.lines, [host |-> h.host, port |-> h.port])
        IN  /\ (mismatch /\ Len(e.want) >= 1)
                  => (last.ret.kind # "nil" /\ files[khPath] = last.before)
            /\ (~h.err /\ ~r.err /\ known # {}
                  /\ \A k \in known : k.Key # last.key)
                  => (last.ret.kind # "nil" /\ files[khPath] = last.before)
            /\ last.ret.kind = "nil"
                  => (e.kind = "nil" \/ (mismatch /\ e.want = <<>>))

C1_Witness ==
    /\ last.op = "callback"
    /\ appends = 1
    /\ last.inner.kind = "KeyError"
    /\ Len(last.inner.want) >= 1
    /\ last.ret = ChangedError

\* C3: when WriteKnownHost has appended its line for a host that the file
\* did not know (hostname without space or tab) and the DB is rebuilt from
\* that file, verifying the host with the written key succeeds.
C3_RoundTrip ==
    (/\ last.op = "callback"
     /\ last.called /\ ~last.ferr
     /\ ~ContainsWhiteSpace(last.hostname)
     /\ LET d0 == NewDB(<<khPath>>, [files EXCEPT ![khPath] = last.before])
        IN  /\ d0.built
            /\ CheckResults(d0.lines, last.hostname, last.remote, last.key)
                  = {KeyError(<<>>)})
    => LET d == NewDB(<<khPath>>, files)
       IN  /\ d.built
           /\ CheckResults(d.lines, last.hostname, last.remote, last.key)
                 = {NilError}

\* C9: WriteKnownHost called with a hostname whose normalized form contains
\* a space or a tab returns an error and writes nothing; white space in the
\* remote address alone is no error, and the line written holds the hostname
\* only.
C9_WhiteSpaceHostnameRejected ==
    (last.op = "callback" /\ last.called) =>
        LET hostws == \E i \in 1..Len(Normalize(last.hostname)) :
                          Normalize(last.hostname)[i] \in {" ", "\t"}
            remotews == \E i \in 1..Len(Normalize(last.remote)) :
                          Normalize(last.remote)[i] \in {" ", "\t"}
        IN  /\ hostws => (last.ferr /\ files[khPath] = last.before)
            /\ (~hostws /\ remotews) =>
                  /\ ~last.ferr
                  /\ files[khPath] =
                        Append(last.before,
                               Normalize(last.hostname)
                                 \o <<" ", last.key.typ, " ",
                                      Base64Encode(last.key.blob)>>)

C9_Witness ==
    /\ last.op = "callback"
    /\ last.called
    /\ last.hostname = HSpace
    /\ last.remote = R1
    /\ last.ferr
    /\ files[khPath] = last.before

(***************************************************************************)
(* Property of HostKeys on a result of the callback that is neither nil    *)
(* nor a KeyError (checked under SpecLookup).                              *)
(***************************************************************************)
\* C11: when the callback, called by HostKeys with the placeholder key,
\* returns an error that is no KeyError (the host string cannot be split into
\* host and port), HostKeys does not return an empty key list, and what it
\* returns differs from what it returns for an unknown host.
C11_UnexpectedErrorNotSwallowed ==
    (/\ last.op = "HostKeys"
     /\ db.built
     /\ last.hkcbErr.kind \notin {"nil", "KeyError", "WrappedKeyError"})
    => /\ Len(last.keys) > 0
       /\ <<last.keys, last.isNil>> #
             <<HostKeys(db.isCert, KeyError(<<>>)),
               HostKeysIsNil(db.by, KeyError(<<>>))>>

====
